---- MODULE Spec2Model ----
(***************************************************************************)
(* Model of pdfs_ai_rename.py: the filename sanitiser                      *)
(* (validate_and_trim_filename), the token budgeter (pdfs_to_text_string   *)
(* and content_token_cut) and the batch loop (rename_pdfs_in_directory).   *)
(*                                                                         *)
(* A Python str is a sequence of characters; a character is a string of    *)
(* the model ("a", " ", "U+1F600" for one non-ASCII code point).  A value  *)
(* that may be None is a record: PyNone or PyStr(s).                       *)
(***************************************************************************)
EXTENDS Integers, Sequences, FiniteSets, TLC

VARIABLES
    candidate,      \* argument of validate_and_trim_filename (sanitiser runs)
    clock,          \* the time.gmtime() read by the last fallback-capable call
    sanitized,      \* the value validate_and_trim_filename returned
    extracted,      \* text extract_text() gave for the current PDF
    pdf_content,    \* `content` of pdfs_to_text_string / content_token_cut
    num_tokens,     \* `num_tokens` of pdfs_to_text_string / content_token_cut
    max_length,     \* the token budget (global max_length, parameter of the cut)
    dir,            \* the directory: file name -> modification time
    files,          \* the listing of line 71-73, sorted newest first
    idx,            \* position of the `for filename in files` loop (1-based)
    response,       \* text of the chat completion for the current PDF
    new_file_name,  \* `new_file_name` of rename_pdfs_in_directory
    existing_pdfs,  \* `existing_pdfs` read at line 84 for the current PDF
    outcome,        \* history: what happened to files[i]
    renamedTo,      \* history: targets of the renames that succeeded so far
    pc              \* position in the code

vars == << candidate, clock, sanitized, extracted, pdf_content, num_tokens,
           max_length, dir, files, idx, response, new_file_name,
           existing_pdfs, outcome, renamedTo, pc >>

(***************************************************************************)
(* Bounds of the model.                                                    *)
(***************************************************************************)
MaxSeedLen == 2
MaxReps == 52
MaxTextSeedLen == 2
MaxTextReps == 6
MaxBudget == 3
MaxFiles == 3
MaxMtime == 2

(***************************************************************************)
(* Program constants.                                                      *)
(***************************************************************************)
NameLimit == 50
DefaultMaxLength == 15000

(***************************************************************************)
(* Characters and Python string helpers.                                   *)
(***************************************************************************)
UpperSeq == << "A","B","C","D","E","F","G","H","I","J","K","L","M",
               "N","O","P","Q","R","S","T","U","V","W","X","Y","Z" >>
LowerSeq == << "a","b","c","d","e","f","g","h","i","j","k","l","m",
               "n","o","p","q","r","s","t","u","v","w","x","y","z" >>
DigitSeq == << "0","1","2","3","4","5","6","7","8","9" >>

Range(s) == { s[i] : i \in DOMAIN s }

\* the character class [A-Za-z0-9_] of line 59
WordChars == Range(UpperSeq) \cup Range(LowerSeq) \cup Range(DigitSeq) \cup {"_"}

\* what str.strip() removes
Whitespace == { " ", "\t", "\n" }

Min(a, b) == IF a < b THEN a ELSE b

\* s[:n]
Slice(s, n) == SubSeq(s, 1, Min(n, Len(s)))

\* mutant: each disallowed character replaced by "_" instead of deleted
re_sub_underscore(s) ==
    [ i \in DOMAIN s |-> IF s[i] \in WordChars THEN s[i] ELSE "_" ]

\* re.sub(r'[^A-Za-z0-9_]', '', s): every match, one character, is replaced
\* by the empty string and the pieces in between are joined in order.  The
\* halves of the string are rewritten separately, which keeps the nesting of
\* the evaluation logarithmic in the length.
RECURSIVE re_sub(_)
re_sub(s) ==
    IF Len(s) = 0 THEN << >>
    ELSE IF Len(s) = 1 THEN (IF s[1] \in WordChars THEN << s[1] >> ELSE << >>)
    ELSE LET half == Len(s) \div 2
         IN  re_sub(SubSeq(s, 1, half)) \o re_sub(SubSeq(s, half + 1, Len(s)))

\* str.strip(): what lies between the first and the last character that is
\* not whitespace
strip(s) ==
    LET kept == { i \in DOMAIN s : s[i] \notin Whitespace }
    IN  IF kept = {} THEN << >>
        ELSE SubSeq(s, CHOOSE i \in kept : \A j \in kept : i <= j,
                       CHOOSE i \in kept : \A j \in kept : i >= j)

\* str.lower() on one character
lower_char(c) ==
    IF \E i \in DOMAIN UpperSeq : UpperSeq[i] = c
    THEN LowerSeq[CHOOSE i \in DOMAIN UpperSeq : UpperSeq[i] = c]
    ELSE c

\* str.lower()
lower(s) == [ i \in DOMAIN s |-> lower_char(s[i]) ]

\* str.endswith(suffix)
endswith(s, suffix) ==
    /\ Len(s) >= Len(suffix)
    /\ SubSeq(s, Len(s) - Len(suffix) + 1, Len(s)) = suffix

DotPdf == << ".", "p", "d", "f" >>

\* filename.lower().endswith(".pdf"), lines 76 and 84
IsPdf(f) == endswith(lower(f), DotPdf)

PyNone == [ tag |-> "None" ]
PyStr(s) == [ tag |-> "str", val |-> s ]

\* Python truth value of None or a str
Truthy(v) == v.tag = "str" /\ v.val /= << >>

(***************************************************************************)
(* time.strftime('%Y%m%d%H%M%S', t): each field in decimal, zero-padded.   *)
(***************************************************************************)
RECURSIVE Decimal(_, _)
Decimal(n, width) ==
    IF width = 0 THEN << >>
    ELSE Decimal(n \div 10, width - 1) \o << DigitSeq[(n % 10) + 1] >>

strftime(t) ==
    Decimal(t.year, 4) \o Decimal(t.mon, 2) \o Decimal(t.mday, 2)
        \o Decimal(t.hour, 2) \o Decimal(t.min, 2) \o Decimal(t.sec, 2)

EmptyFilePrefix == << "e","m","p","t","y","_","f","i","l","e","_" >>

\* f'empty_file_{timestamp}', lines 54-55 and 61-62
fallback_name(t) == EmptyFilePrefix \o strftime(t)

\* mutant: the truncation of line 64 left out
trim_missing(cleaned) == cleaned

\* cleaned_filename[:50], line 64
trim(cleaned) == Slice(cleaned, NameLimit)

\* validate_and_trim_filename, lines 48-64; t is what time.gmtime() returns
validate_and_trim_filename(initial_filename, t) ==
    IF ~ Truthy(initial_filename) THEN fallback_name(t)
    ELSE LET cleaned_filename == re_sub(initial_filename.val)
         IN  IF cleaned_filename = << >> THEN fallback_name(t)
             ELSE trim(cleaned_filename)

(***************************************************************************)
(* Inputs: strings built as a seed repeated, so that long strings occur    *)
(* without enumerating every string.                                       *)
(***************************************************************************)
\* seed written k times
Repeat(seed, k) ==
    [ i \in 1..(k * Len(seed)) |-> seed[((i - 1) % Len(seed)) + 1] ]

SeqsUpTo(S, n) == UNION { [ 1..k -> S ] : k \in 0..n }

CandChars == { "a", "Z", "7", "_", " ", "-" }

Candidates ==
    { Repeat(seed, k) : seed \in SeqsUpTo(CandChars, MaxSeedLen), k \in 0..MaxReps }

Clocks ==
    { [ year |-> 2024, mon |-> 1, mday |-> 5, hour |-> 3, min |-> 4, sec |-> 9 ],
      [ year |-> 2025, mon |-> 12, mday |-> 31, hour |-> 23, min |-> 59, sec |-> 59 ] }

(***************************************************************************)
(* Specification of the sanitiser alone: one call on any candidate.        *)
(***************************************************************************)
Idle ==
    /\ extracted = << >>
    /\ pdf_content = << >>
    /\ num_tokens = 0
    /\ max_length = DefaultMaxLength
    /\ dir = << >>
    /\ files = << >>
    /\ idx = 1
    /\ response = << >>
    /\ new_file_name = << >>
    /\ existing_pdfs = {}
    /\ outcome = << >>
    /\ renamedTo = {}

InitSanitize ==
    /\ Idle
    /\ candidate \in { PyNone } \cup { PyStr(s) : s \in Candidates }
    /\ clock \in Clocks
    /\ sanitized = << >>
    /\ pc = "call"

Sanitize ==
    /\ pc = "call"
    /\ sanitized' = validate_and_trim_filename(candidate, clock)
    /\ pc' = "returned"
    /\ UNCHANGED << candidate, clock, extracted, pdf_content, num_tokens,
                    max_length, dir, files, idx, response, new_file_name,
                    existing_pdfs, outcome, renamedTo >>

NextSanitize == Sanitize

SpecSanitize == InitSanitize /\ [][NextSanitize]_vars

(***************************************************************************)
(* The tokenizer.  tiktoken's cl100k_base is a byte-pair encoding: some    *)
(* runs of characters are one token, and one character outside the         *)
(* vocabulary is several tokens (its UTF-8 bytes).  The model keeps both   *)
(* effects over a small alphabet: two merged pairs, and one code point     *)
(* that costs two tokens.  Every other character is one token.             *)
(***************************************************************************)
MergedPairs == { << "a", "b" >>, << " ", "a" >> }
MultiTokenChars == { "U+1F600" }

\* s[i] and s[i + 1] are a pair of the vocabulary
pair_at(s, i) == i < Len(s) /\ << s[i], s[i + 1] >> \in MergedPairs

\* The encoder goes left to right and takes a pair when it stands on one, so
\* s[i] is the second character of a token exactly when the pairs that end
\* at i form a chain of odd length: (s[i-1], s[i]) is a pair taken unless
\* s[i-1] was itself taken by the pair before it, and so on.
merged_into_previous(s, i) ==
    /\ i > 1
    /\ pair_at(s, i - 1)
    /\ LET chain == { r \in 1..(i - 1) : \A k \in 1..r : pair_at(s, i - k) }
       IN  Cardinality(chain) % 2 = 1

\* len(encoding.encode(s)), lines 108 and 123: one token for each position
\* where a token begins, one more where that token is a lone character
\* outside the vocabulary
encode_len(s) ==
    LET begins == { i \in DOMAIN s : ~ merged_into_previous(s, i) }
        lone == { i \in begins : ~ pair_at(s, i) /\ s[i] \in MultiTokenChars }
    IN  Cardinality(begins) + Cardinality(lone)

\* "Content is empty or contains only whitespace.", line 105
Placeholder ==
    << "C","o","n","t","e","n","t"," ","i","s"," ","e","m","p","t","y"," ",
       "o","r"," ","c","o","n","t","a","i","n","s"," ","o","n","l","y"," ",
       "w","h","i","t","e","s","p","a","c","e","." >>

\* lines 104-105: if not content.strip(): content = placeholder
or_placeholder(content) ==
    IF strip(content) = << >> THEN Placeholder ELSE content

\* mutant: the loop stops one token above the budget
over_budget_off_by_one(n, m) == n > m + 1

\* num_tokens > max_length, the test of lines 109 and 118
over_budget(n, m) == n > m

\* mutant: round() instead of int(), so a length of 1..5 is not reduced
new_length_rounded(n) == (n * 9 + 5) \div 10

\* int(len(content) * 0.9), line 121.  0.9 as a double is a little above
\* 9/10, and for every length a str can have the product rounds to a double
\* whose integer part is floor(9n/10).
new_length(n) == (n * 9) \div 10

\* one iteration of the while loop, lines 121-122
shrink(content) == Slice(content, new_length(Len(content)))

\* content_token_cut, lines 113-124
RECURSIVE content_token_cut(_, _, _)
content_token_cut(content, n, m) ==
    IF over_budget(n, m)
    THEN content_token_cut(shrink(content), encode_len(shrink(content)), m)
    ELSE content

\* pdfs_to_text_string, lines 104-111, on the text extract_text() returned
pdfs_to_text_string(text, m) ==
    LET content == or_placeholder(text)
        n == encode_len(content)
    IN  IF over_budget(n, m) THEN content_token_cut(content, n, m) ELSE content

TextChars == { "a", "b", " ", "U+1F600" }

Texts ==
    { Repeat(seed, k) : seed \in SeqsUpTo(TextChars, MaxTextSeedLen),
                        k \in 0..MaxTextReps }

(***************************************************************************)
(* Specification of the budgeting step alone, the loop taken one           *)
(* iteration at a time.                                                    *)
(***************************************************************************)
IdleBatch ==
    /\ candidate = PyNone
    /\ clock = CHOOSE t \in Clocks : TRUE
    /\ sanitized = << >>
    /\ dir = << >>
    /\ files = << >>
    /\ idx = 1
    /\ response = << >>
    /\ new_file_name = << >>
    /\ existing_pdfs = {}
    /\ outcome = << >>
    /\ renamedTo = {}

InitBudget ==
    /\ IdleBatch
    /\ extracted \in Texts
    /\ max_length \in 1..MaxBudget
    /\ pdf_content = << >>
    /\ num_tokens = 0
    /\ pc = "extracted"

budget_unchanged ==
    UNCHANGED << candidate, clock, sanitized, extracted, max_length, dir,
                 files, idx, response, new_file_name, existing_pdfs, outcome,
                 renamedTo >>

\* lines 104-110 up to the call of content_token_cut or the return
TokenCheck ==
    /\ pc = "extracted"
    /\ pdf_content' = or_placeholder(extracted)
    /\ num_tokens' = encode_len(pdf_content')
    /\ pc' = IF over_budget(num_tokens', max_length) THEN "cut" ELSE "return"
    /\ budget_unchanged

\* lines 118-123: one iteration of the loop
CutStep ==
    /\ pc = "cut"
    /\ over_budget(num_tokens, max_length)
    /\ pdf_content' = shrink(pdf_content)
    /\ num_tokens' = encode_len(pdf_content')
    /\ pc' = "cut"
    /\ budget_unchanged

\* lines 118 and 124: the loop test fails, content is returned
CutReturn ==
    /\ pc = "cut"
    /\ ~ over_budget(num_tokens, max_length)
    /\ pc' = "return"
    /\ UNCHANGED << pdf_content, num_tokens >>
    /\ budget_unchanged

NextBudget == TokenCheck \/ CutStep \/ CutReturn

SpecBudget == InitBudget /\ [][NextBudget]_vars

\* the interpreter runs the next statement: the loop is not suspended
SpecBudgetFair == SpecBudget /\ WF_vars(NextBudget)

\* C2: for every content and every budget m > 0, what the budgeting step
\* returns has at most m tokens or is the empty string.
C2_WithinBudgetOrEmpty ==
    pc = "return" =>
        \/ encode_len(pdf_content) <= max_length
        \/ pdf_content = << >>

\* the loop ran and cut the content down to the empty string
C2_Witness ==
    /\ pc = "return"
    /\ max_length > 0
    /\ encode_len(or_placeholder(extracted)) > max_length
    /\ pdf_content = << >>

\* C9: the shrink loop terminates.  Each iteration sets the content to its
\* first floor(0.9 * length) characters, which is strictly shorter while the
\* length is above 0; with empty content the loop test fails (0 tokens), so
\* the loop stops although it never tests the length; and every run of the
\* loop reaches the return.
C9_ShrinkLoopTerminates ==
    /\ [][ (pc = "cut" /\ pc' = "cut") =>
             /\ Len(pdf_content) > 0
             /\ 10 * Len(pdf_content') <= 9 * Len(pdf_content)
             /\ 10 * Len(pdf_content') > 9 * Len(pdf_content) - 10
             /\ Len(pdf_content') < Len(pdf_content)
             /\ pdf_content' = SubSeq(pdf_content, 1, Len(pdf_content')) ]_vars
    /\ [](pc = "cut" /\ pdf_content = << >> => ~ ENABLED CutStep)
    /\ (pc = "cut" ~> pc = "return")

\* the loop stopped because the content became empty
C9_Witness ==
    /\ pc = "cut"
    /\ pdf_content = << >>
    /\ encode_len(or_placeholder(extracted)) > max_length

(***************************************************************************)
(* The batch: rename_pdfs_in_directory, lines 66-93.                       *)
(*                                                                         *)
(* The directory holds regular files only (the isfile filter of line 71    *)
(* keeps every entry) and nothing but this program changes it.             *)
(***************************************************************************)
Names ==
    { << "X", ".", "p", "d", "f" >>,
      << "X", "_", "0", "1", ".", "p", "d", "f" >>,
      << "b", ".", "P", "D", "F" >>,
      << "n", ".", "t", "x", "t" >> }

\* what the chat completion may answer
Responses ==
    { << "X" >>,
      << "X", "_", "0", "1" >>,
      << " ", "Y", "-" >>,
      << " " >> }

\* what extract_text() may give: no page, a blank page, a page with text
BatchTexts == { << >>, << " ", "\n" >>, << "a", "b" >> }

Directories ==
    UNION { [ S -> 1..MaxMtime ] : S \in { T \in SUBSET Names : Cardinality(T) <= MaxFiles } }

Injective(f) == \A i, j \in DOMAIN f : f[i] = f[j] => i = j

\* lines 71-73: os.listdir in any order, then a stable sort by modification
\* time, newest first; files of equal time keep the order listdir gave
sorted_listings(d) ==
    { p \in [ 1..Cardinality(DOMAIN d) -> DOMAIN d ] :
        /\ Injective(p)
        /\ \A i, j \in DOMAIN p : i < j => d[p[i]] >= d[p[j]] }

\* line 84: {f for f in os.listdir(directory) if f.lower().endswith(".pdf")}
listdir_pdfs(d) == { f \in DOMAIN d : IsPdf(f) }

Suffix01 == << "_", "0", "1" >>

\* mutant: a second suffix when the first suffixed name exists too
deduplicate_retry(name, existing) ==
    IF (name \o DotPdf) \notin existing THEN name
    ELSE IF (name \o Suffix01 \o DotPdf) \notin existing THEN name \o Suffix01
    ELSE name \o Suffix01 \o Suffix01

\* lines 85-86
deduplicate(name, existing) ==
    IF (name \o DotPdf) \in existing THEN name \o Suffix01 ELSE name

\* mutant: a blank extraction named by the fallback, the reply ignored
get_new_filename_blank_fallback(content, reply, t) ==
    IF content = SubSeq(Placeholder, 1, Len(content)) /\ content /= << >>
    THEN fallback_name(t)
    ELSE validate_and_trim_filename(PyStr(strip(reply)), t)

\* get_new_filename_from_openai, lines 44-46, once the completion `reply`
\* for `content` has arrived
get_new_filename_from_openai(content, reply, t) ==
    validate_and_trim_filename(PyStr(strip(reply)), t)

\* os.rename(src, dst) that succeeds: dst is replaced if it exists
os_rename(d, src, dst) ==
    IF src = dst THEN d
    ELSE [ n \in (DOMAIN d \ { src }) \cup { dst } |->
             IF n = dst THEN d[src] ELSE d[n] ]

InitBatch ==
    /\ candidate = PyNone
    /\ clock = CHOOSE t \in Clocks : TRUE
    /\ sanitized = << >>
    /\ extracted = << >>
    /\ pdf_content = << >>
    /\ num_tokens = 0
    /\ max_length = DefaultMaxLength
    /\ dir \in Directories
    /\ files = << >>
    /\ idx = 1
    /\ response = << >>
    /\ new_file_name = << >>
    /\ existing_pdfs = {}
    /\ outcome = << >>
    /\ renamedTo = {}
    /\ pc = "start"

InLoop == pc = "loop" /\ idx <= Len(files)

\* leaving one iteration: the locals are dead until they are assigned again
next_file ==
    /\ idx' = idx + 1
    /\ pc' = "loop"
    /\ extracted' = << >>
    /\ pdf_content' = << >>
    /\ response' = << >>
    /\ sanitized' = << >>
    /\ new_file_name' = << >>
    /\ existing_pdfs' = {}

\* lines 71-73
ListDir ==
    /\ pc = "start"
    /\ files' \in sorted_listings(dir)
    /\ outcome' = [ i \in 1..Len(files') |-> "pending" ]
    /\ pc' = "loop"
    /\ UNCHANGED << candidate, clock, sanitized, extracted, pdf_content,
                    num_tokens, max_length, dir, idx, response, new_file_name,
                    existing_pdfs, renamedTo >>

\* line 76, test false: the entry is not a PDF
SkipNonPdf ==
    /\ InLoop
    /\ ~ IsPdf(files[idx])
    /\ outcome' = [ outcome EXCEPT ![idx] = "skipped" ]
    /\ next_file
    /\ UNCHANGED << candidate, clock, num_tokens, max_length, dir, files,
                    renamedTo >>

\* line 80: pdfs_to_text_string returns
ReadPdf ==
    /\ InLoop
    /\ IsPdf(files[idx])
    /\ files[idx] \in DOMAIN dir
    /\ \E text \in BatchTexts :
         /\ extracted' = text
         /\ pdf_content' = pdfs_to_text_string(text, max_length)
    /\ pc' = "generate"
    /\ UNCHANGED << candidate, clock, sanitized, num_tokens, max_length, dir,
                    files, idx, response, new_file_name, existing_pdfs,
                    outcome, renamedTo >>

\* line 80: open() or PdfReader raises (an unreadable or damaged file);
\* nothing catches it, rename_pdfs_in_directory ends
ReadRaises ==
    /\ InLoop
    /\ IsPdf(files[idx])
    /\ outcome' = [ outcome EXCEPT ![idx] = "read_failed" ]
    /\ pc' = "aborted"
    /\ UNCHANGED << candidate, clock, sanitized, extracted, pdf_content,
                    num_tokens, max_length, dir, files, idx, response,
                    new_file_name, existing_pdfs, renamedTo >>

\* line 81: the completion arrives and is sanitised
Generate ==
    /\ pc = "generate"
    /\ \E reply \in Responses, t \in Clocks :
         /\ response' = reply
         /\ clock' = t
         /\ sanitized' = get_new_filename_from_openai(pdf_content, reply, t)
    /\ new_file_name' = sanitized'
    /\ pc' = "collide"
    /\ UNCHANGED << candidate, extracted, pdf_content, num_tokens, max_length,
                    dir, files, idx, existing_pdfs, outcome, renamedTo >>

\* line 81: openai.ChatCompletion.create raises, or the response lacks the
\* expected fields; nothing catches it, rename_pdfs_in_directory ends
GenerateRaises ==
    /\ pc = "generate"
    /\ outcome' = [ outcome EXCEPT ![idx] = "generation_failed" ]
    /\ pc' = "aborted"
    /\ UNCHANGED << candidate, clock, sanitized, extracted, pdf_content,
                    num_tokens, max_length, dir, files, idx, response,
                    new_file_name, existing_pdfs, renamedTo >>

\* lines 84-88
CheckCollision ==
    /\ pc = "collide"
    /\ existing_pdfs' = listdir_pdfs(dir)
    /\ new_file_name' = deduplicate(new_file_name, existing_pdfs')
    /\ pc' = "rename"
    /\ UNCHANGED << candidate, clock, sanitized, extracted, pdf_content,
                    num_tokens, max_length, dir, files, idx, response,
                    outcome, renamedTo >>

\* lines 90-91: os.rename succeeds
RenameOk ==
    /\ pc = "rename"
    /\ dir' = os_rename(dir, files[idx], new_file_name \o DotPdf)
    /\ renamedTo' = renamedTo \cup { new_file_name \o DotPdf }
    /\ outcome' = [ outcome EXCEPT ![idx] = "renamed" ]
    /\ next_file
    /\ UNCHANGED << candidate, clock, num_tokens, max_length, files >>

\* lines 92-93: os.rename raises (permissions, or a platform that refuses
\* an existing target); the exception is printed
RenameRaises ==
    /\ pc = "rename"
    /\ outcome' = [ outcome EXCEPT ![idx] = "rename_failed" ]
    /\ next_file
    /\ UNCHANGED << candidate, clock, num_tokens, max_length, dir, files,
                    renamedTo >>

\* line 75: the list is exhausted
LoopEnds ==
    /\ pc = "loop"
    /\ idx > Len(files)
    /\ pc' = "done"
    /\ UNCHANGED << candidate, clock, sanitized, extracted, pdf_content,
                    num_tokens, max_length, dir, files, idx, response,
                    new_file_name, existing_pdfs, outcome, renamedTo >>

Next ==
    \/ ListDir
    \/ SkipNonPdf
    \/ ReadPdf
    \/ ReadRaises
    \/ Generate
    \/ GenerateRaises
    \/ CheckCollision
    \/ RenameOk
    \/ RenameRaises
    \/ LoopEnds

Spec == InitBatch /\ [][Next]_vars


\* C1: whatever the candidate (None, empty, whitespace-only, only disallowed
\* characters, or anything else), the name validate_and_trim_filename returns
\* is non-empty, at most 50 characters long and made of [A-Za-z0-9_] only.
C1_SanitizedWellFormed ==
    pc = "returned" =>
        /\ sanitized /= << >>
        /\ Len(sanitized) <= 50
        /\ \A i \in DOMAIN sanitized : sanitized[i] \in WordChars

\* a candidate that is not empty and holds no allowed character was sanitised
C1_Witness ==
    /\ pc = "returned"
    /\ candidate.tag = "str"
    /\ Len(candidate.val) > 0
    /\ \A i \in DOMAIN candidate.val : candidate.val[i] \notin WordChars

IsWordChar(c) == c \in WordChars

HasWordChar(v) ==
    v.tag = "str" /\ \E i \in DOMAIN v.val : v.val[i] \in WordChars

DigitValue(c) == (CHOOSE i \in DOMAIN DigitSeq : DigitSeq[i] = c) - 1

RECURSIVE ParseDecimal(_)
ParseDecimal(s) ==
    IF s = << >> THEN 0
    ELSE 10 * ParseDecimal(SubSeq(s, 1, Len(s) - 1)) + DigitValue(s[Len(s)])

\* name is empty_file_ followed by the 14 digits YYYYMMDDHHMMSS of time t
IsFallbackAt(name, t) ==
    /\ Len(name) = Len(EmptyFilePrefix) + 14
    /\ SubSeq(name, 1, Len(EmptyFilePrefix)) = EmptyFilePrefix
    /\ \A i \in (Len(EmptyFilePrefix) + 1)..Len(name) : name[i] \in Range(DigitSeq)
    /\ ParseDecimal(SubSeq(name, 12, 15)) = t.year
    /\ ParseDecimal(SubSeq(name, 16, 17)) = t.mon
    /\ ParseDecimal(SubSeq(name, 18, 19)) = t.mday
    /\ ParseDecimal(SubSeq(name, 20, 21)) = t.hour
    /\ ParseDecimal(SubSeq(name, 22, 23)) = t.min
    /\ ParseDecimal(SubSeq(name, 24, 25)) = t.sec

\* C8: a candidate holding at least one allowed character comes back as the
\* first 50 characters of the candidate with every disallowed character
\* deleted (order and case kept, nothing substituted); a candidate holding
\* none (None, empty, whitespace, only disallowed characters) comes back as
\* empty_file_ followed by the 14-digit UTC timestamp.
C8_DeleteThenTruncateOrFallback ==
    pc = "returned" =>
        IF HasWordChar(candidate)
        THEN LET kept == SelectSeq(candidate.val, IsWordChar)
             IN  /\ Len(sanitized) = Min(Len(kept), 50)
                 /\ \A i \in DOMAIN sanitized : sanitized[i] = kept[i]
        ELSE IsFallbackAt(sanitized, clock)

\* a candidate mixing allowed and disallowed characters, with more than 50
\* allowed ones, was sanitised
C8_Witness ==
    /\ pc = "returned"
    /\ HasWordChar(candidate)
    /\ \E i \in DOMAIN candidate.val : candidate.val[i] \notin WordChars
    /\ Len(SelectSeq(candidate.val, IsWordChar)) > 50
    /\ Len(sanitized) = 50

Blank(text) == strip(text) = << >>

\* name is empty_file_ followed by 14 digits
IsEmptyFileForm(name) ==
    /\ Len(name) = Len(EmptyFilePrefix) + 14
    /\ SubSeq(name, 1, Len(EmptyFilePrefix)) = EmptyFilePrefix
    /\ \A i \in (Len(EmptyFilePrefix) + 1)..Len(name) : name[i] \in Range(DigitSeq)

Terminated == pc \in { "done", "aborted" }

\* every PDF listed after files[i] has been taken up by the loop
LaterPdfsProcessed(i) ==
    \A j \in DOMAIN files : (j > i /\ IsPdf(files[j])) => outcome[j] /= "pending"

\* C3: the collision check gives base + "_01" when base + ".pdf" is in the
\* set of existing PDF names (one suffix, no second check) and base unchanged
\* otherwise.
C3_SingleSuffix ==
    pc = "rename" =>
        IF \E f \in existing_pdfs : f = sanitized \o << ".", "p", "d", "f" >>
        THEN new_file_name = sanitized \o << "_", "0", "1" >>
        ELSE new_file_name = sanitized

\* the base collided, was suffixed once, and the suffixed name exists as well
C3_Witness ==
    /\ pc = "rename"
    /\ (sanitized \o DotPdf) \in existing_pdfs
    /\ new_file_name = sanitized \o Suffix01
    /\ (new_file_name \o DotPdf) \in existing_pdfs

\* C4: the final name with its .pdf extension is not in the set of existing
\* names read at that file's collision check, so a rename never targets a
\* name already present in the directory.
C4_TargetNotExisting ==
    pc = "rename" => (new_file_name \o DotPdf) \notin existing_pdfs

\* C5: a failure of the text-generation call costs only the file it happened
\* on: when the batch has ended, every PDF listed after that file has been
\* processed.
C5_GenerationFailureIsPerFile ==
    Terminated =>
        \A i \in DOMAIN files :
            outcome[i] = "generation_failed" => LaterPdfsProcessed(i)

\* C6: a failure of the rename is caught: the file keeps its name, and when
\* the batch has ended every PDF listed after that file has been processed.
C6_RenameFailureIsPerFile ==
    /\ (pc = "loop" /\ idx > 1 /\ outcome[idx - 1] = "rename_failed")
           => files[idx - 1] \in DOMAIN dir
    /\ Terminated =>
           \A i \in DOMAIN files :
               outcome[i] = "rename_failed" => LaterPdfsProcessed(i)

\* C7: after an extraction that gave only whitespace or nothing,
\* the rename target is empty_file_<14 digits>.pdf whatever the service
\* answered.
C7_BlankExtractionNamedEmptyFile ==
    (pc = "rename" /\ Blank(extracted)) => IsEmptyFileForm(new_file_name)

\* C7, amended: after an extraction that gave only whitespace or nothing,
\* the service is sent the fixed placeholder text and the rename target is
\* named from its answer like any other: the answer's allowed characters
\* (first 50), or empty_file_<14-digit timestamp> only when the answer holds
\* no allowed character, with _01 appended on a collision.
C7_BlankExtractionNamedFromReply ==
    (pc = "rename" /\ Blank(extracted)) =>
        /\ pdf_content = Placeholder
        /\ IF HasWordChar(PyStr(response))
           THEN LET kept == SelectSeq(response, IsWordChar)
                IN  sanitized = SubSeq(kept, 1, Min(Len(kept), 50))
           ELSE IsFallbackAt(sanitized, clock)
        /\ new_file_name \in { sanitized, sanitized \o Suffix01 }

\* a blank extraction whose rename target is not of the empty_file_ form
C7_Witness ==
    /\ pc = "rename"
    /\ Blank(extracted)
    /\ HasWordChar(PyStr(response))
    /\ ~ IsEmptyFileForm(new_file_name)

\* C10: each collision check reads the directory as the earlier renames of
\* the batch left it, and if an earlier file was renamed to X.pdf and this
\* file's sanitized name is X, the existing set holds X.pdf and the final
\* name is X_01.
C10_EarlierTargetForcesSuffix ==
    pc = "rename" =>
        /\ existing_pdfs = { f \in DOMAIN dir : IsPdf(f) }
        /\ (sanitized \o DotPdf) \in renamedTo =>
               /\ (sanitized \o DotPdf) \in existing_pdfs
               /\ new_file_name = sanitized \o Suffix01

\* What does hold of the collision check: the listing is the directory as the
\* earlier renames left it, so a target of an earlier rename that is still
\* in the directory forces the suffix.
FreshListingPerFile ==
    pc = "rename" =>
        /\ existing_pdfs = { f \in DOMAIN dir : IsPdf(f) }
        /\ ((sanitized \o DotPdf) \in renamedTo /\ (sanitized \o DotPdf) \in DOMAIN dir) =>
               /\ (sanitized \o DotPdf) \in existing_pdfs
               /\ new_file_name = sanitized \o Suffix01

====
